---------------------------- MODULE Spec2Model ----------------------------
(***************************************************************************)
(* Decoder and variational-autoencoder branches of the 3D segmentation     *)
(* network (model/decoder.py, model/variational_autoencoder.py).           *)
(*                                                                         *)
(* A single-threaded driver constructs one layer at a time, calls it,      *)
(* asks for its configuration and rebuilds it from that configuration.     *)
(* A forward pass is followed layer by layer.  Tensors are carried by      *)
(* their shape; the latent vectors of the autoencoder also carry their     *)
(* entries.                                                                *)
(***************************************************************************)
EXTENDS Integers, Sequences, FiniteSets, TLC

VARIABLES consts,   \* the values of utils.constants read by the layers
          layer,    \* the layer object the driver holds
          pc,       \* the call in progress and the next stage of it
          frame,    \* the local variables of the call in progress
          trace,    \* the stages the last call has applied, in order
          result,   \* what the last finished operation returned or raised
          rng,      \* the number of draws made from the global generator
          draws     \* per sampling step so far, the draw it used

vars == <<consts, layer, pc, frame, trace, result, rng, draws>>

---------------------------------------------------------------------------
(* Bounds of the model. *)

MaxBatch == 2       \* batch sizes 1..MaxBatch
MaxSpat == 2        \* bottleneck spatial extents 1..MaxSpat per axis
MaxLatent == 2      \* VAE_LATENT_SIZE ranges over 1..MaxLatent
MaxDraws == 2       \* forward passes of the autoencoder per run

(* utils.constants is not among the sources.  The channel depths of the    *)
(* decoder are the ones the docstring of ConvDecoder.call names; the       *)
(* others follow the specification or are stand-ins of the right kind.     *)
ENC_BOTTLENECK_SIZE == 256
DEC_CONV_BLOCK2_SIZE == 128
DEC_CONV_BLOCK1_SIZE == 64
DEC_CONV_BLOCK0_SIZE == 32
DEC_CONV_LAYER_SIZE == 32
OUT_CH == 4
IN_CH == 4
VAE_VD_CONV_SIZE == 16
VAE_VU_BLOCK_SIZE == 256
VAE_CONV_BLOCK2_SIZE == 128
VAE_CONV_BLOCK1_SIZE == 64
VAE_CONV_BLOCK0_SIZE == 32

(* The input volumes (H, W, D) the constants module may configure: every   *)
(* extent is a multiple of 8, so the encoder's three halvings are exact.   *)
(* <<160, 192, 128>> is the crop of the paper the docstrings refer to.     *)
Volumes == { <<16, 16, 16>>, <<160, 192, 128>>, <<32, 24, 16>>, <<24, 16, 32>> }

H == consts.H
W == consts.W
D == consts.D
VAE_LATENT_SIZE == consts.VAE_LATENT_SIZE
VAE_VD_BLOCK_SIZE == 2 * VAE_LATENT_SIZE

DataFormats == {"channels_last", "channels_first"}

---------------------------------------------------------------------------
(* Tensors: a shape, the name of what produced it, and (for the latent     *)
(* vectors only) the rows of entries.  A raised exception is carried as a  *)
(* value with err set and ends the call where it arises.                   *)

Tensor(shape, src, val) == [shape |-> shape, src |-> src, val |-> val, err |-> FALSE]
NoTensor == [shape |-> <<>>, src |-> "none", val |-> <<>>, err |-> FALSE]
Raise(kind) == [shape |-> <<>>, src |-> kind, val |-> <<>>, err |-> TRUE]

RECURSIVE Prod(_)
Prod(s) == IF s = <<>> THEN 1 ELSE Head(s) * Prod(Tail(s))

CeilDiv(a, b) == (a + b - 1) \div b

(* Python's int(a / b) for the positive a, b used here. *)
IntDiv(a, b) == a \div b

(* Axis numbers are 1-based: axis 1 is the batch axis. *)
ChannelAxis(data_format) == IF data_format = "channels_last" THEN 5 ELSE 2
SpatialAxes(data_format) == IF data_format = "channels_last" THEN <<2, 3, 4>> ELSE <<3, 4, 5>>
IsSpatial(data_format, i) == \E k \in 1..3 : SpatialAxes(data_format)[k] = i

(* The shape of a batch of n volumes of spatial extent sp with c channels. *)
VolumeShape(data_format, n, sp, c) ==
    IF data_format = "channels_last" THEN <<n, sp[1], sp[2], sp[3], c>>
    ELSE <<n, c, sp[1], sp[2], sp[3]>>

SpatialOf(data_format, shape) == [k \in 1..3 |-> shape[SpatialAxes(data_format)[k]]]
ChannelsOf(data_format, shape) == shape[ChannelAxis(data_format)]

---------------------------------------------------------------------------
(* The framework layers the code instantiates, by their effect on shapes.  *)

LayerDesc(kind, filters, kernel_size, strides, data_format, activation) ==
    [kind |-> kind, filters |-> filters, kernel_size |-> kernel_size,
     strides |-> strides, data_format |-> data_format, activation |-> activation]

(* Conv3D as it would be with padding='valid'. *)
Conv3DValid(l, x) ==
    IF x.err THEN x
    ELSE IF Len(x.shape) # 5 THEN Raise("ValueError")
    ELSE Tensor([i \in 1..5 |->
                    IF i = ChannelAxis(l.data_format) THEN l.filters
                    ELSE IF IsSpatial(l.data_format, i)
                         THEN CeilDiv(x.shape[i] - l.kernel_size + 1, l.strides)
                    ELSE x.shape[i]],
                l.kind, <<>>)

(* tf.keras.layers.Conv3D with padding='same'. *)
Conv3D(l, x) ==
    IF x.err THEN x
    ELSE IF Len(x.shape) # 5 THEN Raise("ValueError")
    ELSE Tensor([i \in 1..5 |->
                    IF i = ChannelAxis(l.data_format) THEN l.filters
                    ELSE IF IsSpatial(l.data_format, i) THEN CeilDiv(x.shape[i], l.strides)
                    ELSE x.shape[i]],
                l.kind, <<>>)

(* tf.keras.layers.UpSampling3D(size): repeats along the spatial axes. *)
UpSampling3D(l, x) ==
    IF x.err THEN x
    ELSE IF Len(x.shape) # 5 THEN Raise("ValueError")
    ELSE Tensor([i \in 1..5 |->
                    IF IsSpatial(l.data_format, i) THEN l.strides * x.shape[i]
                    ELSE x.shape[i]],
                l.kind, <<>>)

(* tf.keras.layers.Add: the batch sizes must agree; every other axis       *)
(* follows the element-wise rule of the merge layers, where an extent of 1 *)
(* is stretched to the other operand's extent and any other difference     *)
(* raises.                                                                 *)
Add(a, b) ==
    IF a.err THEN a
    ELSE IF b.err THEN b
    ELSE IF Len(a.shape) # Len(b.shape) \/ a.shape[1] # b.shape[1] THEN Raise("ValueError")
    ELSE IF \E i \in 2..Len(a.shape) :
                a.shape[i] # b.shape[i] /\ a.shape[i] # 1 /\ b.shape[i] # 1
         THEN Raise("ValueError")
    ELSE Tensor([i \in 1..Len(a.shape) |->
                    IF i = 1 THEN a.shape[1]
                    ELSE IF a.shape[i] = 1 THEN b.shape[i] ELSE a.shape[i]],
                "Add", <<>>)

(* ConvBlock (model.resnet_block / model.layers, not among the sources):   *)
(* a residual convolutional unit that keeps the spatial extent and leaves  *)
(* `filters` channels.                                                     *)
ConvBlock(l, x) ==
    IF x.err THEN x
    ELSE IF Len(x.shape) # 5 THEN Raise("ValueError")
    ELSE Tensor([i \in 1..5 |->
                    IF i = ChannelAxis(l.data_format) THEN l.filters ELSE x.shape[i]],
                l.kind, <<>>)

(* GroupNormalization (model.group_norm, not among the sources) and the    *)
(* relu activation keep the shape; relu clips the entries at 0.            *)
GroupNormalization(l, x) == IF x.err THEN x ELSE Tensor(x.shape, l.kind, x.val)

Relu(l, x) ==
    IF x.err THEN x
    ELSE Tensor(x.shape, l.kind,
                [r \in DOMAIN x.val |->
                    [i \in DOMAIN x.val[r] |-> IF x.val[r][i] < 0 THEN 0 ELSE x.val[r][i]]])

(* tf.keras.layers.Flatten: one vector per batch element. *)
Flatten(l, x) ==
    IF x.err THEN x
    ELSE Tensor(<<x.shape[1], Prod(Tail(x.shape))>>, l.kind, <<>>)

(* The entries a dense projection produces are decided by learned weights  *)
(* the model does not follow: they are one of a few test vectors, picked   *)
(* by `seed`, whose entries differ within a row.  Log-variances are in     *)
(* units of ln 2 and even, which keeps exp(0.5 * v) an integer.            *)
DenseSeeds == {-2, 0}
DenseVal(seed, n, units) ==
    [r \in 1..n |-> [i \in 1..units |-> seed + 2 * (i - 1) + 2 * (r - 1)]]

(* tf.keras.layers.Dense(units) on one vector per batch element. *)
Dense(l, x, seed) ==
    IF x.err THEN x
    ELSE IF Len(x.shape) # 2 THEN Raise("ValueError")
    ELSE Tensor(<<x.shape[1], l.filters>>, l.kind, DenseVal(seed, x.shape[1], l.filters))

(* tf.keras.layers.Reshape(target_shape): the batch axis is kept, the rest *)
(* becomes target_shape; the number of entries must not change.            *)
Reshape(l, x) ==
    IF x.err THEN x
    ELSE IF Prod(Tail(x.shape)) # Prod(l.kernel_size) THEN Raise("ValueError")
    ELSE Tensor(<<x.shape[1]>> \o l.kernel_size, l.kind, <<>>)

---------------------------------------------------------------------------
(* Layer objects.  An object records its class, the name the base class    *)
(* gave it, the attributes __init__ assigned, the value of self.config     *)
(* (when the class assigns one) and its sub-layers.                        *)

NoRegularizer == [kind |-> "none", class_name |-> "None"]
L2Regularizer == [kind |-> "object", class_name |-> "L1L2"]
Regularizers == {NoRegularizer, L2Regularizer}
Initializers == {"he_normal", "glorot_uniform"}

(* tf.keras.regularizers.serialize: None stays None, a regularizer object  *)
(* becomes its descriptor; anything else cannot be serialized.             *)
RegularizerSerialize(reg) ==
    CASE reg.kind = "none" -> reg
      [] reg.kind = "object" -> [kind |-> "dict", class_name |-> reg.class_name]
      [] OTHER -> [kind |-> "error", class_name |-> "ValueError"]

NoLayer == [cls |-> "None", err |-> FALSE, name |-> "", attrs |-> {},
            config |-> <<>>, sub |-> <<>>]
RaiseLayer(kind) == [cls |-> kind, err |-> TRUE, name |-> "", attrs |-> {},
                     config |-> <<>>, sub |-> <<>>]

(* tf.keras.layers.Layer.get_config of the base class. *)
BaseGetConfig(name) == ("name" :> name) @@ ("trainable" :> TRUE) @@ ("dtype" :> "float32")

DecoderBlockParams == {"filters", "kernel_size", "data_format", "groups", "reduction",
                       "kernel_regularizer", "kernel_initializer", "use_se"}
ConvDecoderParams == DecoderBlockParams \ {"filters"}
VariationalAutoencoderBlockParams == {"filters", "kernel_size", "data_format", "groups",
                                      "kernel_regularizer"}
VariationalAutoencoderParams == {"data_format", "groups", "kernel_size", "kernel_regularizer"}

Params(cls) ==
    CASE cls = "DecoderBlock" -> DecoderBlockParams
      [] cls = "ConvDecoder" -> ConvDecoderParams
      [] cls = "VariationalAutoencoderBlock" -> VariationalAutoencoderBlockParams
      [] cls = "VariationalAutoencoder" -> VariationalAutoencoderParams

(* The parameters without a default value. *)
Required(cls) == Params(cls) \cap {"filters"}

Defaults(cls) ==
    [p \in Params(cls) \ {"filters"} |->
        CASE p = "kernel_size" -> 3
          [] p = "data_format" -> "channels_last"
          [] p = "groups" -> 8
          [] p = "reduction" -> 4
          [] p = "kernel_regularizer" -> NoRegularizer
          [] p = "kernel_initializer" -> "he_normal"
          [] p = "use_se" -> FALSE]

(* What DecoderBlock.__init__ writes into self.config. *)
DecoderBlockConfigUpdate(a) ==
    [k \in {"filters", "kernel_size", "data_format", "groups", "reduction",
            "kernel_regularizer", "use_se"} |->
        IF k = "kernel_regularizer" THEN RegularizerSerialize(a[k]) ELSE a[k]]

DecoderBlockInit(a) ==
    IF RegularizerSerialize(a.kernel_regularizer).kind = "error" THEN RaiseLayer("ValueError")
    ELSE [cls |-> "DecoderBlock", err |-> FALSE, name |-> "decoder_block",
          attrs |-> {"config", "conv3d_ptwise", "upsample", "residual", "conv_block"},
          config |-> DecoderBlockConfigUpdate(a) @@ BaseGetConfig("decoder_block"),
          sub |-> [conv3d_ptwise |-> LayerDesc("Conv3D", a.filters, 1, 1, a.data_format, "linear"),
                   upsample |-> LayerDesc("UpSampling3D", 0, 0, 2, a.data_format, "linear"),
                   residual |-> LayerDesc("Add", 0, 0, 0, a.data_format, "linear"),
                   conv_block |-> LayerDesc("ConvBlock", a.filters, a.kernel_size, 1,
                                            a.data_format, "linear")]]

(* What ConvDecoder.__init__ writes into self.config. *)
ConvDecoderConfigUpdate(a) ==
    [k \in {"data_format", "kernel_size", "groups", "reduction", "kernel_regularizer",
            "use_se"} |->
        IF k = "kernel_regularizer" THEN RegularizerSerialize(a[k]) ELSE a[k]]

ConvDecoderInit(a) ==
    IF RegularizerSerialize(a.kernel_regularizer).kind = "error" THEN RaiseLayer("ValueError")
    ELSE [cls |-> "ConvDecoder", err |-> FALSE, name |-> "conv_decoder",
          attrs |-> {"config", "dec_block_2", "dec_block_1", "dec_block_0", "conv_out",
                     "ptwise_logits"},
          config |-> ConvDecoderConfigUpdate(a) @@ BaseGetConfig("conv_decoder"),
          sub |-> [dec_block_2 |-> DecoderBlockInit(("filters" :> DEC_CONV_BLOCK2_SIZE) @@ a),
                   dec_block_1 |-> DecoderBlockInit(("filters" :> DEC_CONV_BLOCK1_SIZE) @@ a),
                   dec_block_0 |-> DecoderBlockInit(("filters" :> DEC_CONV_BLOCK0_SIZE) @@ a),
                   conv_out |-> LayerDesc("Conv3D", DEC_CONV_LAYER_SIZE, a.kernel_size, 1,
                                          a.data_format, "linear"),
                   ptwise_logits |-> LayerDesc("Conv3D", OUT_CH - 1, 1, 1, a.data_format,
                                               "sigmoid")]]

VariationalAutoencoderBlockInit(a) ==
    [cls |-> "VariationalAutoencoderBlock", err |-> FALSE,
     name |-> "variational_autoencoder_block",
     attrs |-> {"conv3d_ptwise", "upsample", "conv_block"},
     config |-> <<>>,
     sub |-> [conv3d_ptwise |-> LayerDesc("Conv3D", a.filters, 1, 1, a.data_format, "linear"),
              upsample |-> LayerDesc("UpSampling3D", 0, 0, 2, a.data_format, "linear"),
              conv_block |-> LayerDesc("ConvBlock", a.filters, a.kernel_size, 1,
                                       a.data_format, "linear")]]

(* The target shape of reshape_VU: (h, w, d, 1) with h = int(H/16), ...    *)
ReshapeTarget == <<IntDiv(H, 16), IntDiv(W, 16), IntDiv(D, 16), 1>>

VariationalAutoencoderInit(a) ==
    [cls |-> "VariationalAutoencoder", err |-> FALSE, name |-> "variational_autoencoder",
     attrs |-> {"groupnorm_VD", "relu_VD", "conv3d_VD", "flatten_VD", "proj_VD", "sample",
                "proj_VU", "relu_VU", "reshape_VU", "conv1d_VU", "conv3d_upsample_VU",
                "conv_block_2", "conv_block_1", "conv_block_0", "conv_out"},
     config |-> <<>>,
     sub |-> [groupnorm_VD |-> LayerDesc("GroupNormalization", 0, 0, 0, a.data_format, "linear"),
              relu_VD |-> LayerDesc("Activation", 0, 0, 0, a.data_format, "relu"),
              conv3d_VD |-> LayerDesc("Conv3D", VAE_VD_CONV_SIZE, a.kernel_size, 2,
                                      a.data_format, "linear"),
              flatten_VD |-> LayerDesc("Flatten", 0, 0, 0, a.data_format, "linear"),
              proj_VD |-> LayerDesc("Dense", VAE_VD_BLOCK_SIZE, 0, 0, a.data_format, "linear"),
              sample |-> LayerDesc("Lambda", 0, 0, 0, a.data_format, "linear"),
              proj_VU |-> LayerDesc("Dense", Prod(ReshapeTarget), 0, 0, a.data_format, "linear"),
              relu_VU |-> LayerDesc("Activation", 0, 0, 0, a.data_format, "relu"),
              reshape_VU |-> LayerDesc("Reshape", 0, ReshapeTarget, 0, a.data_format, "linear"),
              conv1d_VU |-> LayerDesc("Conv3D", VAE_VU_BLOCK_SIZE, 1, 1, a.data_format, "linear"),
              conv3d_upsample_VU |-> LayerDesc("UpSampling3D", 0, 0, 2, a.data_format, "linear"),
              conv_block_2 |-> VariationalAutoencoderBlockInit(
                                  ("filters" :> VAE_CONV_BLOCK2_SIZE) @@ a),
              conv_block_1 |-> VariationalAutoencoderBlockInit(
                                  ("filters" :> VAE_CONV_BLOCK1_SIZE) @@ a),
              conv_block_0 |-> VariationalAutoencoderBlockInit(
                                  ("filters" :> VAE_CONV_BLOCK0_SIZE) @@ a),
              conv_out |-> LayerDesc("Conv3D", IN_CH, a.kernel_size, 1, a.data_format,
                                     "linear")]]

(* Calling cls with keywords kw: one that is no parameter, or a missing    *)
(* required parameter, is a TypeError; otherwise defaults fill the rest.   *)
New(cls, kw) ==
    IF ~ (DOMAIN kw \subseteq Params(cls)) \/ ~ (Required(cls) \subseteq DOMAIN kw)
    THEN RaiseLayer("TypeError")
    ELSE LET a == kw @@ Defaults(cls) IN
         CASE cls = "DecoderBlock" -> DecoderBlockInit(a)
           [] cls = "ConvDecoder" -> ConvDecoderInit(a)
           [] cls = "VariationalAutoencoderBlock" -> VariationalAutoencoderBlockInit(a)
           [] cls = "VariationalAutoencoder" -> VariationalAutoencoderInit(a)

(* get_config: DecoderBlock and ConvDecoder return self.config; the two    *)
(* autoencoder classes do not override it and answer with the base         *)
(* class's.                                                                *)
GetConfig(l) ==
    IF l.cls \in {"DecoderBlock", "ConvDecoder"} THEN l.config ELSE BaseGetConfig(l.name)

(* tf.keras.layers.Layer.from_config calls cls with the config as keywords. *)
FromConfig(cls, config) == New(cls, config)

---------------------------------------------------------------------------
(* Forward passes. *)

DecoderBlockOrder == <<"conv3d_ptwise", "upsample", "residual", "conv_block">>

(* One line of DecoderBlock.call. *)
DecoderBlockStage(b, stage, x, enc_res) ==
    CASE stage = "conv3d_ptwise" -> Conv3D(b.sub.conv3d_ptwise, x)
      [] stage = "upsample" -> UpSampling3D(b.sub.upsample, x)
      [] stage = "residual" -> Add(x, enc_res)
      [] stage = "conv_block" -> ConvBlock(b.sub.conv_block, x)

RECURSIVE DecoderBlockFrom(_, _, _, _)
DecoderBlockFrom(b, i, x, enc_res) ==
    IF i > Len(DecoderBlockOrder) THEN x
    ELSE DecoderBlockFrom(b, i + 1, DecoderBlockStage(b, DecoderBlockOrder[i], x, enc_res),
                          enc_res)

(* DecoderBlock.call((x, enc_res)). *)
DecoderBlockCall(b, x, enc_res) == DecoderBlockFrom(b, 1, x, enc_res)

ConvDecoderOrder == <<"dec_block_2", "dec_block_1", "dec_block_0", "conv_out", "ptwise_logits">>

(* enc_out_0, enc_out_1, enc_out_2, x = inputs *)
ConvDecoderUnpack(inputs) ==
    [enc_out_0 |-> inputs[1], enc_out_1 |-> inputs[2], enc_out_2 |-> inputs[3],
     x |-> inputs[4]]

(* The pairing with the residuals taken coarsest first. *)
ConvDecoderResidualReversed(stage, inputs) ==
    CASE stage = "dec_block_2" -> ConvDecoderUnpack(inputs).enc_out_0
      [] stage = "dec_block_1" -> ConvDecoderUnpack(inputs).enc_out_1
      [] stage = "dec_block_0" -> ConvDecoderUnpack(inputs).enc_out_2
      [] OTHER -> NoTensor

(* The encoder residual a stage of ConvDecoder.call is given. *)
ConvDecoderResidual(stage, inputs) ==
    CASE stage = "dec_block_2" -> ConvDecoderUnpack(inputs).enc_out_2
      [] stage = "dec_block_1" -> ConvDecoderUnpack(inputs).enc_out_1
      [] stage = "dec_block_0" -> ConvDecoderUnpack(inputs).enc_out_0
      [] OTHER -> NoTensor

(* One line of ConvDecoder.call. *)
ConvDecoderStage(l, stage, x, inputs) ==
    IF stage \in {"dec_block_2", "dec_block_1", "dec_block_0"}
    THEN DecoderBlockCall(l.sub[stage], x, ConvDecoderResidual(stage, inputs))
    ELSE Conv3D(l.sub[stage], x)

VariationalAutoencoderBlockOrder == <<"conv3d_ptwise", "upsample", "conv_block">>

(* One line of VariationalAutoencoderBlock.call. *)
VariationalAutoencoderBlockStage(b, stage, x) ==
    CASE stage = "conv3d_ptwise" -> Conv3D(b.sub.conv3d_ptwise, x)
      [] stage = "upsample" -> UpSampling3D(b.sub.upsample, x)
      [] stage = "conv_block" -> ConvBlock(b.sub.conv_block, x)

RECURSIVE VariationalAutoencoderBlockFrom(_, _, _)
VariationalAutoencoderBlockFrom(b, i, x) ==
    IF i > Len(VariationalAutoencoderBlockOrder) THEN x
    ELSE VariationalAutoencoderBlockFrom(
             b, i + 1,
             VariationalAutoencoderBlockStage(b, VariationalAutoencoderBlockOrder[i], x))

VariationalAutoencoderBlockCall(b, x) == VariationalAutoencoderBlockFrom(b, 1, x)

VariationalAutoencoderOrder ==
    <<"groupnorm_VD", "relu_VD", "conv3d_VD", "flatten_VD", "proj_VD", "split", "sample",
      "proj_VU", "relu_VU", "reshape_VU", "conv1d_VU", "conv3d_upsample_VU",
      "conv_block_2", "conv_block_1", "conv_block_0", "conv_out">>

DenseStages == {"proj_VD", "proj_VU"}

(* One line of VariationalAutoencoder.call that maps x to x. *)
VariationalAutoencoderStage(l, stage, x, seed) ==
    CASE stage = "groupnorm_VD" -> GroupNormalization(l.sub[stage], x)
      [] stage \in {"relu_VD", "relu_VU"} -> Relu(l.sub[stage], x)
      [] stage \in {"conv3d_VD", "conv1d_VU", "conv_out"} -> Conv3D(l.sub[stage], x)
      [] stage = "flatten_VD" -> Flatten(l.sub[stage], x)
      [] stage \in DenseStages -> Dense(l.sub[stage], x, seed)
      [] stage = "reshape_VU" -> Reshape(l.sub[stage], x)
      [] stage = "conv3d_upsample_VU" -> UpSampling3D(l.sub[stage], x)
      [] stage \in {"conv_block_2", "conv_block_1", "conv_block_0"} ->
             VariationalAutoencoderBlockCall(l.sub[stage], x)

(* x[:, :stop] and x[:, start:] on one vector per batch element, with      *)
(* Python's clamping of the bounds to the width.                           *)
Min(a, b) == IF a < b THEN a ELSE b
SliceTo(x, stop) ==
    LET w == Min(stop, x.shape[2]) IN
    Tensor(<<x.shape[1], w>>, "slice",
           [r \in DOMAIN x.val |-> [i \in 1..w |-> x.val[r][i]]])
SliceFrom(x, start) ==
    LET s == Min(start, x.shape[2])
        w == x.shape[2] - s IN
    Tensor(<<x.shape[1], w>>, "slice",
           [r \in DOMAIN x.val |-> [i \in 1..w |-> x.val[r][s + i]]])

(* z_mean = x[:, :VAE_LATENT_SIZE]; z_logvar = x[:, VAE_LATENT_SIZE:] *)
SplitMean(x) == SliceTo(x, VAE_LATENT_SIZE)
(* The second slice starting one entry late. *)
SplitLogvarLate(x) == SliceFrom(x, VAE_LATENT_SIZE + 1)
SplitLogvar(x) == SliceFrom(x, VAE_LATENT_SIZE)

(* Log-variances are in units of ln 2: exp(v) is 2^v and 0.5 * v is v/2,   *)
(* exact on the even values the projections produce.                       *)
Exp(v) == 2 ^ v
(* The factor 0.5 left out: the variance taken for the deviation. *)
NotHalved(v) == v
Half(v) == v \div 2

(* The draw tf.random.normal returns: the next of the generator's stream. *)
(* A draw made once and used again by every later call. *)
DrawIdCached(n) == 1
DrawId(n) == n + 1
EpsValues == {-1, 1}

(* The width of an element-wise result of two operands of widths a and b   *)
(* (0 when they cannot be combined).                                       *)
BroadcastWidth(a, b) == IF a = b THEN a ELSE IF a = 1 THEN b ELSE IF b = 1 THEN a ELSE 0
At(row, w, i) == IF w = 1 THEN row[1] ELSE row[i]

(* sample: z_mean + tf.math.exp(0.5 * z_logvar) * eps *)
Sample(z_mean, z_logvar, eps) ==
    LET wm == z_mean.shape[2]
        wl == z_logvar.shape[2]
        we == eps.shape[2]
        ws == BroadcastWidth(wl, we)
        w == BroadcastWidth(wm, ws) IN
    IF wm = 0 \/ wl = 0 \/ we = 0 \/ ws = 0 \/ w = 0 THEN Raise("InvalidArgumentError")
    ELSE Tensor(<<z_mean.shape[1], w>>, "sample",
                [r \in DOMAIN z_mean.val |->
                    [i \in 1..w |->
                        At(z_mean.val[r], wm, i)
                        + Exp(Half(At(z_logvar.val[r], wl, i))) * At(eps.val[r], we, i)]])

---------------------------------------------------------------------------
(* The driver. *)

Classes == {"DecoderBlock", "ConvDecoder", "VariationalAutoencoderBlock",
            "VariationalAutoencoder"}

Idle == [fn |-> "idle", at |-> 0]

EmptyFrame == [inputs |-> <<>>, x |-> NoTensor, enc_res |-> NoTensor,
               z_mean |-> NoTensor, z_logvar |-> NoTensor, eps |-> NoTensor]

Result(kind, args, out, z_mean, z_logvar, config, obj) ==
    [kind |-> kind, args |-> args, out |-> out, z_mean |-> z_mean, z_logvar |-> z_logvar,
     config |-> config, obj |-> obj]
NoResult == Result("none", <<>>, NoTensor, NoTensor, NoTensor, <<>>, NoLayer)

OrderOf(fn) ==
    CASE fn = "DecoderBlock" -> DecoderBlockOrder
      [] fn = "ConvDecoder" -> ConvDecoderOrder
      [] fn = "VariationalAutoencoderBlock" -> VariationalAutoencoderBlockOrder
      [] fn = "VariationalAutoencoder" -> VariationalAutoencoderOrder
      [] OTHER -> <<>>

Stage == OrderOf(pc.fn)[pc.at]
InCall(cls) == pc.fn = cls /\ pc.at \in 1..Len(OrderOf(cls))
DataFormatOf(l) == l.sub.conv_out.data_format

(* The keyword arguments the driver constructs a layer with. *)
BlockFilters == {DEC_CONV_BLOCK2_SIZE, DEC_CONV_BLOCK0_SIZE}
KernelSizes(cls) == IF cls = "ConvDecoder" THEN {3, 5} ELSE {3}
Kwargs(cls) ==
    LET common == {("data_format" :> df) @@ ("kernel_size" :> k)
                       @@ ("kernel_regularizer" :> reg) :
                       df \in DataFormats, k \in KernelSizes(cls), reg \in Regularizers}
        withInit == IF "kernel_initializer" \in Params(cls)
                    THEN {("kernel_initializer" :> ini) @@ kw :
                              ini \in Initializers, kw \in common}
                    ELSE common IN
    IF "filters" \in Params(cls)
    THEN {("filters" :> f) @@ kw : f \in BlockFilters, kw \in withInit}
    ELSE withInit

Init ==
    /\ consts \in {[H |-> v[1], W |-> v[2], D |-> v[3], VAE_LATENT_SIZE |-> n] :
                      v \in Volumes, n \in 1..MaxLatent}
    /\ layer = NoLayer
    /\ pc = Idle
    /\ frame = EmptyFrame
    /\ trace = <<>>
    /\ result = NoResult
    /\ rng = 0
    /\ draws = <<>>

(* The driver is between two operations and holds no result of an earlier  *)
(* one.                                                                    *)
Ready == pc = Idle /\ result = NoResult

(* The driver lets go of what the last operation returned. *)
Forget ==
    /\ pc = Idle
    /\ result # NoResult
    /\ result' = NoResult
    /\ trace' = <<>>
    /\ UNCHANGED <<consts, layer, pc, frame, rng, draws>>

(* layer = cls(...) with keyword arguments kw *)
Construct(cls) ==
    /\ Ready
    /\ layer = NoLayer
    /\ \E kw \in Kwargs(cls) :
          LET l == New(cls, kw) IN
          /\ layer' = IF l.err THEN NoLayer ELSE l
          /\ result' = Result(IF l.err THEN "raised" ELSE "constructed", <<>>, NoTensor,
                              NoTensor, NoTensor, <<>>, l)
    /\ trace' = <<>>
    /\ UNCHANGED <<consts, pc, frame, rng, draws>>

(* The driver drops its reference to the layer. *)
Discard ==
    /\ Ready
    /\ layer # NoLayer
    /\ layer' = NoLayer
    /\ UNCHANGED <<consts, pc, frame, trace, result, rng, draws>>

(* config = layer.get_config() *)
CallGetConfig ==
    /\ Ready
    /\ layer # NoLayer
    /\ result' = Result("config", <<>>, NoTensor, NoTensor, NoTensor, GetConfig(layer), NoLayer)
    /\ UNCHANGED <<consts, layer, pc, frame, trace, rng, draws>>

(* config["name"] = v, done by the caller on the dict get_config returned. *)
(* DecoderBlock and ConvDecoder return self.config itself, not a copy, so  *)
(* the dict the caller writes to is the layer's own; the base class        *)
(* get_config of the two autoencoder classes builds a new dict per call.   *)
ReturnsOwnConfig(cls) == cls \in {"DecoderBlock", "ConvDecoder"}
CallerNames == {"clone"}
SetItem(config, k, v) == [config EXCEPT ![k] = v]
ModifyReturnedConfig ==
    /\ pc = Idle
    /\ layer # NoLayer
    /\ result.kind = "config"
    /\ \E v \in CallerNames :
          /\ result.config.name # v
          /\ result' = [result EXCEPT !.config = SetItem(@, "name", v)]
          /\ layer' = IF ReturnsOwnConfig(layer.cls)
                      THEN [layer EXCEPT !.config = SetItem(@, "name", v)]
                      ELSE layer
    /\ UNCHANGED <<consts, pc, frame, trace, rng, draws>>

(* type(layer).from_config(config), with the config get_config returned *)
CallFromConfig ==
    /\ pc = Idle
    /\ layer # NoLayer
    /\ result.kind = "config"
    /\ LET l == FromConfig(layer.cls, result.config) IN
       result' = Result(IF l.err THEN "raised" ELSE "reconstructed", <<>>, NoTensor, NoTensor,
                        NoTensor, result.config, l)
    /\ UNCHANGED <<consts, layer, pc, frame, trace, rng, draws>>

Begin(cls, inputs, x, enc_res) ==
    /\ pc' = [fn |-> cls, at |-> 1]
    /\ frame' = [EmptyFrame EXCEPT !.inputs = inputs, !.x = x, !.enc_res = enc_res]
    /\ trace' = <<>>
    /\ result' = NoResult
    /\ UNCHANGED <<consts, layer, rng, draws>>

Extents3 == {<<a, b, c>> : a \in 1..MaxSpat, b \in 1..MaxSpat, c \in 1..MaxSpat}
Times(k, sp) == [i \in 1..3 |-> k * sp[i]]
Positional(ts) == [i \in DOMAIN ts |-> [ts[i] EXCEPT !.src = "inputs" \o ToString(i - 1)]]

(* The ways an encoder residual handed to a DecoderBlock may be off: one   *)
(* axis (2..5) has extent 1 or is one too long.                            *)
Faults == {<<0, "none">>} \cup ((2..5) \X {"one", "more"})
Faulty(shape, fault) ==
    [i \in DOMAIN shape |->
        IF i # fault[1] THEN shape[i] ELSE IF fault[2] = "one" THEN 1 ELSE shape[i] + 1]

(* layer((features, enc_res)) on a DecoderBlock *)
CallDecoderBlock ==
    /\ Ready
    /\ layer.cls = "DecoderBlock"
    /\ \E n \in 1..MaxBatch, sp \in Extents3, fault \in Faults :
          LET df == layer.sub.conv_block.data_format
              f == layer.sub.conv_block.filters
              inputs == Positional(
                  <<Tensor(VolumeShape(df, n, sp, 2 * f), "", <<>>),
                    Tensor(Faulty(VolumeShape(df, n, Times(2, sp), f), fault), "", <<>>)>>)
          IN Begin("DecoderBlock", inputs, inputs[1], inputs[2])

(* The encoder outputs for a bottleneck of spatial extent sp, finest       *)
(* residual first, bottleneck last.                                        *)
EncoderOutputs(df, n, sp) ==
    <<Tensor(VolumeShape(df, n, Times(8, sp), DEC_CONV_BLOCK0_SIZE), "", <<>>),
      Tensor(VolumeShape(df, n, Times(4, sp), DEC_CONV_BLOCK1_SIZE), "", <<>>),
      Tensor(VolumeShape(df, n, Times(2, sp), DEC_CONV_BLOCK2_SIZE), "", <<>>),
      Tensor(VolumeShape(df, n, sp, ENC_BOTTLENECK_SIZE), "", <<>>)>>

Orders == {p \in [1..3 -> 1..3] : \A i, j \in 1..3 : p[i] = p[j] => i = j}

(* layer((enc_out_0, enc_out_1, enc_out_2, x)) on a ConvDecoder, with the  *)
(* three residuals in any order                                            *)
CallConvDecoder ==
    /\ Ready
    /\ layer.cls = "ConvDecoder"
    /\ \E n \in 1..MaxBatch, sp \in Extents3, p \in Orders :
          LET e == EncoderOutputs(DataFormatOf(layer), n, sp)
              inputs == Positional(<<e[p[1]], e[p[2]], e[p[3]], e[4]>>)
          IN Begin("ConvDecoder", inputs, ConvDecoderUnpack(inputs).x, NoTensor)

(* layer(x) on a VariationalAutoencoderBlock *)
CallVariationalAutoencoderBlock ==
    /\ Ready
    /\ layer.cls = "VariationalAutoencoderBlock"
    /\ \E n \in 1..MaxBatch, sp \in Extents3 :
          LET df == layer.sub.conv_block.data_format
              inputs == Positional(
                  <<Tensor(VolumeShape(df, n, sp, 2 * layer.sub.conv_block.filters), "", <<>>)>>)
          IN Begin("VariationalAutoencoderBlock", inputs, inputs[1], NoTensor)

(* layer(x) on a VariationalAutoencoder, x the encoder's bottleneck for an *)
(* input volume of extent (H, W, D)                                        *)
CallVariationalAutoencoder ==
    /\ Ready
    /\ layer.cls = "VariationalAutoencoder"
    /\ rng < MaxDraws
    /\ \E n \in 1..MaxBatch :
          LET sp == <<IntDiv(H, 8), IntDiv(W, 8), IntDiv(D, 8)>>
              inputs == Positional(
                  <<Tensor(VolumeShape(DataFormatOf(layer), n, sp, ENC_BOTTLENECK_SIZE),
                           "", <<>>)>>)
          IN Begin("VariationalAutoencoder", inputs, inputs[1], NoTensor)

(* What the trace keeps of a stage: the sub-layer applied, the tensors it  *)
(* was given and the channels it saw on its channel axis.                  *)
StageRecord(stage, l, x, res) ==
    [stage |-> stage, filters |-> l.filters, kernel_size |-> l.kernel_size,
     activation |-> l.activation, in |-> x.src, res |-> res.src,
     in_ch |-> IF Len(x.shape) = 5 THEN ChannelsOf(l.data_format, x.shape) ELSE 0]

(* The end of a stage: an exception ends the call, a value goes on to the  *)
(* next line.                                                              *)
Advance(rec, out) ==
    IF out.err
    THEN /\ pc' = Idle
         /\ frame' = EmptyFrame
         /\ result' = Result("raised", frame.inputs, out, NoTensor, NoTensor, <<>>, NoLayer)
         /\ UNCHANGED trace
    ELSE /\ pc' = [pc EXCEPT !.at = @ + 1]
         /\ frame' = [frame EXCEPT !.x = [out EXCEPT !.src = rec.stage], !.eps = NoTensor]
         /\ trace' = Append(trace, rec)
         /\ UNCHANGED result

DecoderBlockStep ==
    /\ InCall("DecoderBlock")
    /\ Advance(StageRecord(Stage, layer.sub[Stage], frame.x,
                           IF Stage = "residual" THEN frame.enc_res ELSE NoTensor),
               DecoderBlockStage(layer, Stage, frame.x, frame.enc_res))
    /\ UNCHANGED <<consts, layer, rng, draws>>

ConvDecoderStep ==
    /\ InCall("ConvDecoder")
    /\ Advance(StageRecord(Stage, IF "sub" \in DOMAIN layer.sub[Stage]
                                  THEN layer.sub[Stage].sub.conv_block ELSE layer.sub[Stage],
                           frame.x, ConvDecoderResidual(Stage, frame.inputs)),
               ConvDecoderStage(layer, Stage, frame.x, frame.inputs))
    /\ UNCHANGED <<consts, layer, rng, draws>>

VariationalAutoencoderBlockStep ==
    /\ InCall("VariationalAutoencoderBlock")
    /\ Advance(StageRecord(Stage, layer.sub[Stage], frame.x, NoTensor),
               VariationalAutoencoderBlockStage(layer, Stage, frame.x))
    /\ UNCHANGED <<consts, layer, rng, draws>>

VariationalAutoencoderStep ==
    /\ InCall("VariationalAutoencoder")
    /\ Stage \notin {"split", "sample"}
    /\ \E seed \in IF Stage \in DenseStages THEN DenseSeeds ELSE {0} :
          Advance(StageRecord(Stage, IF "sub" \in DOMAIN layer.sub[Stage]
                                     THEN layer.sub[Stage].sub.conv_block ELSE layer.sub[Stage],
                              frame.x, NoTensor),
                  VariationalAutoencoderStage(layer, Stage, frame.x, seed))
    /\ UNCHANGED <<consts, layer, rng, draws>>

(* z_mean = x[:, :VAE_LATENT_SIZE]; z_logvar = x[:, VAE_LATENT_SIZE:] *)
VariationalAutoencoderSplit ==
    /\ InCall("VariationalAutoencoder")
    /\ Stage = "split"
    /\ pc' = [pc EXCEPT !.at = @ + 1]
    /\ frame' = [frame EXCEPT !.z_mean = SplitMean(frame.x), !.z_logvar = SplitLogvar(frame.x)]
    /\ trace' = Append(trace, StageRecord(Stage, layer.sub.sample, frame.x, NoTensor))
    /\ UNCHANGED <<consts, layer, result, rng, draws>>

(* x = self.sample([z_mean, z_logvar]): the Lambda layer runs sample,      *)
(* which draws eps of z_mean's shape and combines the three.  eps is a     *)
(* local of sample; the frame shows it until the next line has run.        *)
VariationalAutoencoderSample ==
    /\ InCall("VariationalAutoencoder")
    /\ Stage = "sample"
    /\ \E e \in [1..frame.z_mean.shape[1] -> [1..frame.z_mean.shape[2] -> EpsValues]] :
          LET eps == Tensor(frame.z_mean.shape, "random_normal", e)
              out == Sample(frame.z_mean, frame.z_logvar, eps) IN
          IF out.err
          THEN /\ pc' = Idle
               /\ frame' = EmptyFrame
               /\ result' = Result("raised", frame.inputs, out, NoTensor, NoTensor, <<>>,
                                   NoLayer)
               /\ UNCHANGED trace
          ELSE /\ pc' = [pc EXCEPT !.at = @ + 1]
               /\ frame' = [frame EXCEPT !.x = out, !.eps = eps]
               /\ trace' = Append(trace, StageRecord(Stage, layer.sub.sample, frame.x,
                                                     NoTensor))
               /\ UNCHANGED result
    /\ rng' = rng + 1
    /\ draws' = Append(draws, DrawId(rng))
    /\ UNCHANGED <<consts, layer>>

(* return x   (return x, z_mean, z_logvar for the autoencoder) *)
Return ==
    /\ pc.fn \in Classes
    /\ pc.at = Len(OrderOf(pc.fn)) + 1
    /\ pc' = Idle
    /\ frame' = EmptyFrame
    /\ result' = Result("returned", frame.inputs, frame.x, frame.z_mean, frame.z_logvar, <<>>,
                        NoLayer)
    /\ UNCHANGED <<consts, layer, trace, rng, draws>>

Next ==
    \/ \E cls \in Classes : Construct(cls)
    \/ Forget
    \/ Discard
    \/ CallGetConfig
    \/ ModifyReturnedConfig
    \/ CallFromConfig
    \/ CallDecoderBlock
    \/ DecoderBlockStep
    \/ CallConvDecoder
    \/ ConvDecoderStep
    \/ CallVariationalAutoencoderBlock
    \/ VariationalAutoencoderBlockStep
    \/ CallVariationalAutoencoder
    \/ VariationalAutoencoderStep
    \/ VariationalAutoencoderSplit
    \/ VariationalAutoencoderSample
    \/ Return

Spec == Init /\ [][Next]_vars

---------------------------------------------------------------------------
(* Properties. *)

(* The last operation was a forward pass of a layer of class cls, and it   *)
(* has ended (by returning or by raising).                                 *)
PassEnded(cls) == layer.cls = cls /\ result.args # <<>>
Batch == result.args[Len(result.args)].shape[1]

(* The encoder outputs handed to the ConvDecoder are those of one          *)
(* bottleneck: residuals of 8, 4 and 2 times its spatial extent, in the    *)
(* order and with the channel depths the decoder expects.                  *)
BottleneckExtent == SpatialOf(DataFormatOf(layer), result.args[4].shape)
ValidEncoderOutputs ==
    [i \in 1..4 |-> result.args[i].shape]
        = [i \in 1..4 |-> EncoderOutputs(DataFormatOf(layer), Batch, BottleneckExtent)[i].shape]

(* C1: a ConvDecoder pass on the encoder outputs of a bottleneck of        *)
(* spatial extent s returns a tensor of the same batch size, spatial       *)
(* extent 8*s and OUT_CH - 1 channels on the layer's channel axis.         *)
C1_DecoderOutputShape ==
    (PassEnded("ConvDecoder") /\ ValidEncoderOutputs)
        => /\ result.kind = "returned"
           /\ result.out.shape = VolumeShape(DataFormatOf(layer), Batch,
                                             Times(8, BottleneckExtent), OUT_CH - 1)

C1_Witness ==
    /\ PassEnded("ConvDecoder") /\ ValidEncoderOutputs
    /\ result.kind = "returned"
    /\ DataFormatOf(layer) = "channels_first"
    /\ Batch = 2
    /\ BottleneckExtent = <<1, 2, 2>>

(* C2: every pass of the VariationalAutoencoder returns a reconstruction   *)
(* of the encoder input's shape: batch size kept, spatial extent           *)
(* (H, W, D), IN_CH channels on the layer's channel axis.                  *)
C2_ReconstructionShape ==
    PassEnded("VariationalAutoencoder")
        => /\ result.kind = "returned"
           /\ result.out.shape = VolumeShape(DataFormatOf(layer), Batch, <<H, W, D>>, IN_CH)

(* The autoencoder pass has split the projected vector, which frame.x      *)
(* still holds, and not yet sampled.                                       *)
AfterSplit == InCall("VariationalAutoencoder") /\ Stage = "sample"

(* C3: the projected vector has 2 * VAE_LATENT_SIZE entries per batch      *)
(* element, z_mean is its first VAE_LATENT_SIZE entries and z_logvar the   *)
(* remaining VAE_LATENT_SIZE, so the two laid end to end are the projected *)
(* vector; the pass returns both with shape (batch, VAE_LATENT_SIZE).      *)
C3_LatentSplit ==
    /\ AfterSplit =>
          LET n == frame.inputs[1].shape[1] IN
          /\ frame.x.shape = <<n, 2 * VAE_LATENT_SIZE>>
          /\ frame.z_mean.shape = <<n, VAE_LATENT_SIZE>>
          /\ frame.z_logvar.shape = <<n, VAE_LATENT_SIZE>>
          /\ \A r \in 1..n :
                /\ frame.z_mean.val[r] = SubSeq(frame.x.val[r], 1, VAE_LATENT_SIZE)
                /\ frame.z_logvar.val[r]
                       = SubSeq(frame.x.val[r], VAE_LATENT_SIZE + 1, 2 * VAE_LATENT_SIZE)
                /\ frame.z_mean.val[r] \o frame.z_logvar.val[r] = frame.x.val[r]
    /\ (PassEnded("VariationalAutoencoder") /\ result.kind = "returned") =>
          /\ result.z_mean.shape = <<Batch, VAE_LATENT_SIZE>>
          /\ result.z_logvar.shape = <<Batch, VAE_LATENT_SIZE>>

C3_Witness ==
    /\ AfterSplit
    /\ VAE_LATENT_SIZE = 2
    /\ frame.inputs[1].shape[1] = 2
    /\ frame.z_logvar.val[2] = <<6, 8>>

(* The sampling step has just run: the frame holds its arguments, its draw *)
(* and its result.                                                         *)
AfterSample == InCall("VariationalAutoencoder") /\ Stage = "proj_VU"

(* C4: sample returns z_mean + exp(0.5 * z_logvar) * eps entry by entry,   *)
(* with the shape of z_mean.  With log-variances in units of ln 2 that is: *)
(* the offset from the mean has the sign of eps and its square is          *)
(* 2^z_logvar * eps^2.                                                     *)
C4_Reparameterization ==
    AfterSample =>
        /\ frame.eps.shape = frame.z_mean.shape
        /\ frame.x.shape = frame.z_mean.shape
        /\ \A r \in 1..frame.z_mean.shape[1], i \in 1..frame.z_mean.shape[2] :
              LET off == frame.x.val[r][i] - frame.z_mean.val[r][i]
                  e == frame.eps.val[r][i] IN
              /\ off * off = (2 ^ frame.z_logvar.val[r][i]) * e * e
              /\ off * e >= 0

C4_Witness ==
    /\ AfterSample
    /\ frame.z_mean.val = <<<<0, 2>>>>
    /\ frame.z_logvar.val = <<<<4, 6>>>>
    /\ frame.eps.val = <<<<-1, 1>>>>
    /\ frame.x.val = <<<<-4, 10>>>>

(* The last operation was from_config on the configuration of the layer. *)
FromConfigEnded == result.kind \in {"reconstructed", "raised"} /\ result.config # <<>>

(* C5: rebuilding a DecoderBlock or ConvDecoder from what its get_config   *)
(* returned succeeds and gives a layer with the same configuration.        *)
C5_ConfigRoundTrip ==
    (FromConfigEnded /\ layer.cls \in {"DecoderBlock", "ConvDecoder"})
        => /\ result.kind = "reconstructed"
           /\ GetConfig(result.obj) = GetConfig(layer)

(* The shape the upsampled features of a DecoderBlock have at its fusion. *)
Upsampled(b, x) == UpSampling3D(b.sub.upsample, Conv3D(b.sub.conv3d_ptwise, x)).shape

(* C6: a DecoderBlock pass whose encoder residual differs in shape from    *)
(* the upsampled features, and a ConvDecoder pass whose residuals are not  *)
(* in the expected order, raise and return no tensor.                      *)
C6_MismatchRaises ==
    /\ (PassEnded("DecoderBlock")
            /\ Upsampled(layer, result.args[1]) # result.args[2].shape)
          => result.kind = "raised"
    /\ (PassEnded("ConvDecoder") /\ ~ ValidEncoderOutputs) => result.kind = "raised"

(* C7: every sampling step makes a draw of its own from the generator: no  *)
(* two of them used the same draw, a pass reaches its sampling step        *)
(* holding no eps, and eps is neither an attribute of the layer nor kept   *)
(* once the pass is over.                                                  *)
C7_FreshEpsilon ==
    /\ Len(draws) = rng
    /\ \A i, j \in DOMAIN draws : i # j => draws[i] # draws[j]
    /\ "eps" \notin layer.attrs
    /\ pc = Idle => frame.eps = NoTensor
    /\ (InCall("VariationalAutoencoder") /\ ~ AfterSample) => frame.eps = NoTensor

C7_Witness == Len(draws) = 2 /\ AfterSample /\ draws[1] # draws[2]

(* C8: every constructed layer holds a configuration record with an entry  *)
(* for each parameter of its constructor, and get_config returns it.       *)
C8_ConfigComplete ==
    layer # NoLayer
        => /\ "config" \in layer.attrs
           /\ GetConfig(layer) = layer.config
           /\ Params(layer.cls) \subseteq DOMAIN GetConfig(layer)

(* The stages of ConvDecoder.call as the specification orders and pairs    *)
(* them, for a layer of the given kernel size.                             *)
ExpectedDecoderTrace(k) ==
    <<[stage |-> "dec_block_2", filters |-> DEC_CONV_BLOCK2_SIZE, kernel_size |-> k,
       activation |-> "linear", in |-> "inputs3", res |-> "inputs2"],
      [stage |-> "dec_block_1", filters |-> DEC_CONV_BLOCK1_SIZE, kernel_size |-> k,
       activation |-> "linear", in |-> "dec_block_2", res |-> "inputs1"],
      [stage |-> "dec_block_0", filters |-> DEC_CONV_BLOCK0_SIZE, kernel_size |-> k,
       activation |-> "linear", in |-> "dec_block_1", res |-> "inputs0"],
      [stage |-> "conv_out", filters |-> DEC_CONV_LAYER_SIZE, kernel_size |-> k,
       activation |-> "linear", in |-> "dec_block_0", res |-> "none"],
      [stage |-> "ptwise_logits", filters |-> OUT_CH - 1, kernel_size |-> 1,
       activation |-> "sigmoid", in |-> "conv_out", res |-> "none"]>>

TraceView == [i \in DOMAIN trace |->
                 [stage |-> trace[i].stage, filters |-> trace[i].filters,
                  kernel_size |-> trace[i].kernel_size, activation |-> trace[i].activation,
                  in |-> trace[i].in, res |-> trace[i].res]]

(* C9: the stages a ConvDecoder pass has applied are at every moment the   *)
(* first ones of: the 128-filter block on the bottleneck (fourth input)    *)
(* with the third input, the next block with the second input, the last    *)
(* block with the first input, the feature convolution of the configured   *)
(* kernel size, the 1x1x1 sigmoid convolution; each takes the output of    *)
(* the one before, and a pass that returns has applied all five.           *)
C9_DecoderPipeline ==
    layer.cls = "ConvDecoder" =>
        LET expected == ExpectedDecoderTrace(layer.config.kernel_size) IN
        /\ Len(trace) <= Len(expected)
        /\ TraceView = SubSeq(expected, 1, Len(trace))
        /\ InCall("ConvDecoder") => Len(trace) = pc.at - 1
        /\ (PassEnded("ConvDecoder") /\ result.kind = "returned")
              => /\ Len(trace) = Len(expected)
                 /\ result.out.src = "ptwise_logits"

C9_Witness ==
    /\ PassEnded("ConvDecoder")
    /\ result.kind = "returned"
    /\ layer.config.kernel_size = 5
    /\ Len(trace) = 5

(* C10: the volume reshape_VU hands to the 1x1x1 convolution has one       *)
(* channel on the layer's channel axis and spatial extent (h, w, d).       *)
C10_SingleChannelVolume ==
    (InCall("VariationalAutoencoder") /\ Stage = "conv1d_VU")
        => /\ ChannelsOf(DataFormatOf(layer), frame.x.shape) = 1
           /\ SpatialOf(DataFormatOf(layer), frame.x.shape)
                  = <<IntDiv(H, 16), IntDiv(W, 16), IntDiv(D, 16)>>

(* C11: a DecoderBlock or ConvDecoder stays what its constructor made it:  *)
(* whatever forward passes, get_config calls and caller writes to a        *)
(* returned configuration have happened, the configuration values and the  *)
(* sub-components the layer holds are those of a construction with some    *)
(* keyword arguments, and get_config returns that configuration.           *)
C11_ConfigNeverMutated ==
    (layer # NoLayer /\ ReturnsOwnConfig(layer.cls))
        => \E kw \in Kwargs(layer.cls) :
              /\ layer = New(layer.cls, kw)
              /\ GetConfig(layer) = New(layer.cls, kw).config

(* Every step that changes a layer the driver holds is a caller's write to *)
(* a returned configuration: forward passes, get_config and from_config    *)
(* leave the layer as it was.                                              *)
OnlyCallerWritesChangeLayer ==
    [][ModifyReturnedConfig \/ layer' = layer \/ layer = NoLayer \/ layer' = NoLayer]_vars

=============================================================================
